---- MODULE Spec2Model ----
(***************************************************************************)
(* Model of the chirper backend (src/s4.js): the Express routes that       *)
(* mutate the two Mongoose collections (User, Tweet) and broadcast over    *)
(* socket.io.  A request is a process; every `await` of a store call is    *)
(* one step: the store operation takes effect atomically and the handler   *)
(* then runs synchronously up to its next `await`.                         *)
(*                                                                         *)
(* doc.save() is Mongoose's: it sends the delta of the modified paths.     *)
(* array.push(x) is sent as an atomic $push with $inc of the version key   *)
(* __v; array.splice() is sent as $set of the whole array guarded by       *)
(* __v = the version that was loaded (a VersionError when it moved on), and *)
(* a plain field is sent as $set without any guard.  `unique: true` on     *)
(* username is a unique index of the collection.                           *)
(*                                                                         *)
(* Documents are never deleted and a user's name and username never        *)
(* change, so the copy of req.user that a handler holds is read from the   *)
(* collection where it is used.  The read-only routes, login, the avatar   *)
(* initials and the uploaded image take no part in the properties below    *)
(* and are left out.                                                       *)
(***************************************************************************)
EXTENDS Integers, Sequences, FiniteSets, TLC

\* ---------------------------------------------------------------- bounds
MaxRequests == 2         \* requests issued in a behaviour of Spec
MaxFollowRequests == 3   \* requests issued in a behaviour of SpecFollow
MaxLikeRequests == 4     \* requests issued in a behaviour of SpecLike
MaxSignupRequests == 3   \* requests issued in a behaviour of SpecSignup
MaxSlots == 2         \* requests in flight at the same time
MaxUsers == 3         \* user ids that tokens and routes may name
MaxNewUsers == 2      \* user documents created by signups
MaxTweets == 2        \* tweet documents (one exists initially)

Slots == 1..MaxSlots
UserIds == 1..MaxUsers
TweetIds == 1..MaxTweets

\* ------------------------------------------------------- request inputs
NoToken == 0          \* no Authorization header, or no second word in it
BadToken == -1        \* a token jwt.verify rejects
Tokens == {NoToken, BadToken} \cup UserIds   \* n > 0: signed for userId n

Usernames == {"", "ann", "cat", "dog"}
Passwords == {"", "p"}
Names == {"", "Ann Lee"}
Contents == {"", "hi"}

ProtectedOps == {"createTweet", "like", "follow", "unfollow", "comment"}

VARIABLES
  users,        \* User collection: sequence indexed by _id
  tweets,       \* Tweet collection: sequence indexed by _id
  req,          \* per slot: the request being handled and its locals
  events,       \* io.emit calls so far, in order
  issued,       \* number of requests issued
  storeFailed,  \* a store call was failed by the store itself
  fu,           \* observer of a Follow followed by an Unfollow, run alone
  tl,           \* observer of two consecutive ToggleLikes by one user
  pr            \* observer of two overlapping ToggleLikes by two users

vars == <<users, tweets, req, events, issued, storeFailed, fu, tl, pr>>

\* ------------------------------------------------------------ documents
NewUser(username, name) ==
  [username |-> username, name |-> name, following |-> <<>>,
   followers |-> 0, v |-> 0]

\* author and handle are the poster's name and username as read by authenticate.
NewTweet(userId, author, username, content) ==
  [userId |-> userId, author |-> author, handle |-> <<"@", username>>,
   content |-> content, likes |-> <<>>, retweets |-> 0, comments |-> <<>>, v |-> 0]

\* Array.prototype.indexOf on a Mongoose array of ids; 0 stands for -1.
IndexOf(arr, x) ==
  IF \E i \in 1..Len(arr) : arr[i] = x
  THEN CHOOSE i \in 1..Len(arr) : arr[i] = x /\ \A j \in 1..(i-1) : arr[j] # x
  ELSE 0

Includes(arr, x) == IndexOf(arr, x) # 0

\* arr.splice(i, 1)
Splice(arr, i) == [j \in 1..(Len(arr)-1) |-> IF j < i THEN arr[j] ELSE arr[j+1]]

Count(arr, x) == Cardinality({i \in 1..Len(arr) : arr[i] = x})

UserExists(id) == id \in 1..Len(users)
TweetExists(id) == id \in 1..Len(tweets)
UsernameTaken(username) == \E i \in 1..Len(users) : users[i].username = username

\* ------------------------------------------------------------- requests
Idle ==
  [op |-> "none", pc |-> "idle", tok |-> NoToken, arg |-> 0,
   username |-> "", password |-> "", name |-> "", content |-> "",
   user |-> 0, arr |-> <<>>, atomic |-> "", ver |-> 0, cnt0 |-> 0, cnt |-> 0,
   status |-> 0, err |-> "", saves |-> 0, emits |-> 0, taken |-> FALSE]

Done(r, status, err) ==
  [r EXCEPT !.pc = "done", !.status = status, !.err = err,
            !.arr = <<>>, !.atomic = "", !.ver = 0, !.cnt0 = 0, !.cnt = 0]

\* res.json(body) where the body carries the handler's local array
DoneWith(r, status, arr) ==
  [r EXCEPT !.pc = "done", !.status = status, !.err = "",
            !.arr = arr, !.atomic = "", !.ver = 0, !.cnt0 = 0, !.cnt = 0]

InFlight(s) == req[s].pc \notin {"idle", "done"}
Free(s) == ~InFlight(s)

EventOf(op) ==
  CASE op = "createTweet" -> "new-tweet"
    [] op = "like" -> "tweet-liked"
    [] op = "follow" -> "user-followed"
    [] op = "unfollow" -> "user-unfollowed"
    [] op = "comment" -> "tweet-commented"
    [] OTHER -> "none"

Emit(name) == Append(events, name)

\* The observers record history the claims speak of; no action reads them.
\* So do, in a request, saves and emits (save() calls resolved, io.emit calls
\* made) and taken (the username of a signup existed when it arrived).
FuOff ==
  [phase |-> "off", slot |-> 0, actor |-> 0, target |-> 0,
   following |-> <<>>, followers |-> 0]

TlOff ==
  [phase |-> "off", slot |-> 0, user |-> 0, tweet |-> 0, count0 |-> 0,
   likes0 |-> 0, first |-> 0, second |-> 0, alone |-> TRUE]

PrOff ==
  [phase |-> "off", a |-> 0, b |-> 0, ua |-> 0, ub |-> 0, tweet |-> 0,
   likes0 |-> <<>>]

\* The collections after two signups and one post, all answered.
InitUsers == <<NewUser("ann", "Ann Lee"), NewUser("bob", "Ann Lee")>>
InitTweets == <<NewTweet(1, "Ann Lee", "ann", "hi")>>

Init ==
  /\ users = InitUsers
  /\ tweets = InitTweets
  /\ req = [s \in Slots |-> Idle]
  /\ events = <<>>
  /\ issued = 0
  /\ storeFailed = FALSE
  /\ fu = FuOff
  /\ tl = TlOff
  /\ pr = PrOff

\* ------------------------------------------------------------ observers
\* Each is evaluated on the step of slot s, after req' is known.
Starting(s) == Free(s)
Authentic(r) == r.pc = "auth" /\ UserExists(r.tok)

\* Follow(A,B) from a state where A does not follow B, then Unfollow(A,B),
\* both answered 200, with no step of any other request from the start of the
\* first to the end of the second.
FuNext(s) ==
  LET r == req'[s] IN
  IF fu.phase \in {"follow", "unfollow"} /\ s = fu.slot
  THEN IF r.pc # "done" THEN fu
       ELSE IF r.status # 200 THEN FuOff
       ELSE [fu EXCEPT !.phase = IF fu.phase = "follow" THEN "followed" ELSE "done"]
  ELSE IF Starting(s) /\ fu.phase = "followed" /\ r.op = "unfollow"
          /\ r.tok = fu.actor /\ r.arg = fu.target
  THEN [fu EXCEPT !.phase = "unfollow", !.slot = s]
  ELSE IF Starting(s) /\ r.op = "follow" /\ Authentic(r) /\ UserExists(r.arg)
          /\ ~Includes(users[r.tok].following, r.arg)
  THEN [phase |-> "follow", slot |-> s, actor |-> r.tok, target |-> r.arg,
        following |-> users[r.tok].following, followers |-> users[r.arg].followers]
  ELSE FuOff

\* Another ToggleLike of the same user on the same tweet is in flight.
SameToggle(s, user, tweet) ==
  \E o \in Slots \ {s} :
    InFlight(o) /\ req[o].op = "like" /\ req[o].tok = user /\ req[o].arg = tweet

\* Two ToggleLike(T,U) answered 200, the second started after the first was
\* answered, with no other ToggleLike(T,U) from the start of the first to the
\* end of the second.  Whether a first toggle is observed is the observer's
\* choice; alone records that no other request took a step in between.
TlNexts(s) ==
  LET r == req'[s]
      mine == req[s].op = "like" /\ req[s].tok = tl.user /\ req[s].arg = tl.tweet
      track ==
        IF Starting(s) /\ r.op = "like" /\ Authentic(r) /\ TweetExists(r.arg)
           /\ ~SameToggle(s, r.tok, r.arg)
        THEN {[TlOff EXCEPT !.phase = "first", !.slot = s, !.user = r.tok,
                            !.tweet = r.arg,
                            !.count0 = Count(tweets[r.arg].likes, r.tok),
                            !.likes0 = Len(tweets[r.arg].likes)]}
        ELSE {}
      go ==
        IF tl.phase \in {"first", "second"} /\ s = tl.slot
        THEN IF r.pc # "done" THEN tl
             ELSE IF r.status # 200 THEN TlOff
             ELSE IF tl.phase = "first"
                  THEN [tl EXCEPT !.phase = "between", !.first = Len(r.arr)]
                  ELSE [tl EXCEPT !.phase = "done", !.second = Len(r.arr)]
        ELSE IF tl.phase = "done" THEN TlOff
        ELSE IF Starting(s) /\ tl.phase = "between" /\ r.op = "like"
                /\ r.tok = tl.user /\ r.arg = tl.tweet
        THEN [tl EXCEPT !.phase = "second", !.slot = s]
        ELSE IF tl.phase # "off" /\ (mine \/ (Starting(s) /\ r.op = "like"
                /\ r.tok = tl.user /\ r.arg = tl.tweet))
        THEN TlOff
        ELSE IF tl.phase # "off" THEN [tl EXCEPT !.alone = FALSE]
        ELSE tl
  IN {go} \cup track

\* Two ToggleLikes on one tweet by two users, the second started while the
\* first was in flight, the first started with no request in flight, and no
\* other request started until both were answered.
PrNext(s) ==
  LET r == req'[s] IN
  IF pr.phase \in {"one", "two"} /\ s \in {pr.a, pr.b} /\ ~Starting(s)
  THEN IF pr.phase = "two" /\ \A o \in {pr.a, pr.b} : req'[o].pc = "done"
       THEN [pr EXCEPT !.phase = "done"]
       ELSE IF pr.phase = "one" /\ r.pc = "done" THEN PrOff
       ELSE pr
  ELSE IF Starting(s) /\ pr.phase = "one" /\ s # pr.a /\ r.op = "like"
          /\ Authentic(r) /\ r.tok # pr.ua /\ r.arg = pr.tweet
  THEN [pr EXCEPT !.phase = "two", !.b = s, !.ub = r.tok]
  ELSE IF Starting(s) /\ r.op = "like" /\ Authentic(r) /\ TweetExists(r.arg)
          /\ \A o \in Slots : Free(o)
  THEN [phase |-> "one", a |-> s, b |-> 0, ua |-> r.tok, ub |-> 0,
        tweet |-> r.arg, likes0 |-> tweets[r.arg].likes]
  ELSE IF Starting(s) \/ pr.phase = "done" THEN PrOff
  ELSE pr

Observe(s) == fu' = FuNext(s) /\ tl' \in TlNexts(s) /\ pr' = PrNext(s)

\* A store call either succeeds (ok) or is failed by the store.
StoreCall(ok) == storeFailed' = (storeFailed \/ ~ok)

\* -------------------------------------------------------- authenticate
\* Synchronous prefix of a route handler, run by next(): up to its first await.
Handler(r) ==
  IF r.op \in {"createTweet", "comment"} /\ r.content = ""
  THEN Done(r, 400, "Content is required")
  ELSE IF r.op = "createTweet" THEN [r EXCEPT !.pc = "save1"]
  ELSE [r EXCEPT !.pc = "find"]

\* Lines 74-78: the token is read and verified before the first await.
TokenCheck(r) ==
  IF r.tok = NoToken THEN Done(r, 401, "Unauthorized")
  ELSE IF r.tok = BadToken THEN Done(r, 401, "Invalid token")
  ELSE [r EXCEPT !.pc = "auth"]

\* Mutant: the `if (!req.user)` test of line 80 is missing.
AuthResultNoLookup(r, ok) ==
  IF ~ok THEN Done(r, 401, "Invalid token")
  ELSE Handler([r EXCEPT !.user = r.tok])

\* Lines 79-84: User.findById(decoded.userId) has answered (or thrown).
AuthResult(r, ok) ==
  IF ~ok THEN Done(r, 401, "Invalid token")
  ELSE IF ~UserExists(r.tok) THEN Done(r, 401, "User not found")
  ELSE Handler([r EXCEPT !.user = r.tok])

ArgsOf(op) ==
  CASE op \in {"like", "comment"} -> TweetIds
    [] op \in {"follow", "unfollow"} -> UserIds
    [] OTHER -> {0}

ContentsOf(op) == IF op \in {"createTweet", "comment"} THEN Contents ELSE {""}

Creating(op) == Cardinality({s \in Slots : InFlight(s) /\ req[s].op = op})

StartProtected(s, ops, limit) ==
  /\ Free(s)
  /\ issued < limit
  /\ \E op \in ops :
       /\ op = "createTweet" => Len(tweets) + Creating(op) < MaxTweets
       /\ \E tok \in Tokens, arg \in ArgsOf(op), content \in ContentsOf(op) :
            req' = [req EXCEPT ![s] = TokenCheck([Idle EXCEPT !.op = op, !.tok = tok,
                                                  !.arg = arg, !.content = content])]
  /\ issued' = issued + 1
  /\ UNCHANGED <<users, tweets, events, storeFailed>>
  /\ Observe(s)

Auth(s) ==
  /\ req[s].pc = "auth"
  /\ \E ok \in BOOLEAN :
       /\ StoreCall(ok)
       /\ req' = [req EXCEPT ![s] = AuthResult(req[s], ok)]
  /\ UNCHANGED <<users, tweets, events, issued>>
  /\ Observe(s)

\* --------------------------------------------------------------- signup
SignupValidate(r) ==
  IF r.username = "" \/ r.password = "" \/ r.name = ""
  THEN Done(r, 400, "Please provide all fields")
  ELSE [r EXCEPT !.pc = "find"]

StartSignup(s, limit) ==
  /\ Free(s)
  /\ issued < limit
  /\ Len(users) + Creating("signup") < Len(InitUsers) + MaxNewUsers
  /\ \E username \in Usernames, password \in Passwords, name \in Names :
       req' = [req EXCEPT ![s] = SignupValidate([Idle EXCEPT !.op = "signup",
                 !.username = username, !.password = password, !.name = name,
                 !.taken = UsernameTaken(username)])]
  /\ issued' = issued + 1
  /\ UNCHANGED <<users, tweets, events, storeFailed>>
  /\ Observe(s)

\* Mutant: the existingUser test of line 109 is missing.
SignupLookupNoCheck(r, ok) ==
  IF ~ok THEN Done(r, 500, "Server error") ELSE [r EXCEPT !.pc = "save1"]

\* Lines 108-113: findOne({username}) has answered; bcrypt.hash is awaited next.
SignupLookup(r, ok) ==
  IF ~ok THEN Done(r, 500, "Server error")
  ELSE IF UsernameTaken(r.username) THEN Done(r, 400, "Username already taken")
  ELSE [r EXCEPT !.pc = "save1"]

SignupFind(s) ==
  /\ req[s].op = "signup" /\ req[s].pc = "find"
  /\ \E ok \in BOOLEAN :
       /\ StoreCall(ok)
       /\ req' = [req EXCEPT ![s] = SignupLookup(req[s], ok)]
  /\ UNCHANGED <<users, tweets, events, issued>>
  /\ Observe(s)

\* Mutant: username is declared without `unique: true`.
InsertAccepted(username) == FALSE

\* The unique index on username (line 32) rejects the insert of a duplicate.
InsertRejected(username) == UsernameTaken(username)

\* Lines 116-128: newUser.save() has answered.
SignupSave(s) ==
  /\ req[s].op = "signup" /\ req[s].pc = "save1"
  /\ \E ok \in BOOLEAN :
       /\ StoreCall(ok)
       /\ IF ok /\ ~InsertRejected(req[s].username)
          THEN /\ users' = Append(users, NewUser(req[s].username, req[s].name))
               /\ req' = [req EXCEPT ![s] = Done([req[s] EXCEPT !.saves = @ + 1], 200, "")]
          ELSE /\ users' = users
               /\ req' = [req EXCEPT ![s] = Done(req[s], 500, "Server error")]
  /\ UNCHANGED <<tweets, events, issued>>
  /\ Observe(s)

\* ---------------------------------------------------------- Mongoose save
\* doc.save() of a document whose array was modified by push ($push, no
\* version guard) or by splice ($set of the array where __v is the loaded one).
VersionConflict(doc, r) == r.atomic = "$set" /\ doc.v # r.ver

SavedArray(dbArr, r, pushed) ==
  IF r.atomic = "$push" THEN Append(dbArr, pushed) ELSE r.arr

Failed(r) == Done(r, 500, "Server error")

\* ---------------------------------------------------------- create tweet
\* Lines 192-194: newTweet.save() has answered.
TweetSave(s) ==
  /\ req[s].op = "createTweet" /\ req[s].pc = "save1"
  /\ \E ok \in BOOLEAN :
       /\ StoreCall(ok)
       /\ IF ok
          THEN /\ tweets' = Append(tweets,
                    NewTweet(req[s].user, users[req[s].user].name,
                             users[req[s].user].username, req[s].content))
               /\ events' = Emit("new-tweet")
               /\ req' = [req EXCEPT ![s] =
                    Done([req[s] EXCEPT !.saves = @ + 1, !.emits = @ + 1], 201, "")]
          ELSE /\ UNCHANGED <<tweets, events>>
               /\ req' = [req EXCEPT ![s] = Failed(req[s])]
  /\ UNCHANGED <<users, issued>>
  /\ Observe(s)

\* ------------------------------------------------------------ like toggle
\* Lines 208-215 on the tweet that findById returned.
Toggle(r, tweet) ==
  LET i == IndexOf(tweet.likes, r.user) IN
  IF i = 0
  THEN [r EXCEPT !.pc = "save1", !.arr = Append(tweet.likes, r.user),
                 !.atomic = "$push", !.ver = tweet.v]
  ELSE [r EXCEPT !.pc = "save1", !.arr = Splice(tweet.likes, i),
                 !.atomic = "$set", !.ver = tweet.v]

\* Lines 203-215
LikeFind(s) ==
  /\ req[s].op = "like" /\ req[s].pc = "find"
  /\ \E ok \in BOOLEAN :
       /\ StoreCall(ok)
       /\ req' = [req EXCEPT ![s] =
            IF ~ok THEN Failed(req[s])
            ELSE IF ~TweetExists(req[s].arg) THEN Done(req[s], 404, "Tweet not found")
            ELSE Toggle(req[s], tweets[req[s].arg])]
  /\ UNCHANGED <<users, tweets, events, issued>>
  /\ Observe(s)

\* Mutant: io.emit('tweet-liked') is placed before `await tweet.save()`.
LikeSaveEmitFirst(s) ==
  /\ req[s].op = "like" /\ req[s].pc = "save1"
  /\ \E ok \in BOOLEAN :
       /\ StoreCall(ok)
       /\ LET r == req[s]
              t == tweets[r.arg]
          IN /\ events' = Emit("tweet-liked")
             /\ IF ok /\ ~VersionConflict(t, r)
                THEN /\ tweets' = [tweets EXCEPT ![r.arg] =
                          [t EXCEPT !.likes = SavedArray(t.likes, r, r.user), !.v = @ + 1]]
                     /\ req' = [req EXCEPT ![s] =
                          DoneWith([r EXCEPT !.saves = @ + 1, !.emits = @ + 1], 200, r.arr)]
                ELSE /\ tweets' = tweets
                     /\ req' = [req EXCEPT ![s] = Failed([r EXCEPT !.emits = @ + 1])]
  /\ UNCHANGED <<users, issued>>
  /\ Observe(s)

\* Lines 217-219
LikeSave(s) ==
  /\ req[s].op = "like" /\ req[s].pc = "save1"
  /\ \E ok \in BOOLEAN :
       /\ StoreCall(ok)
       /\ LET r == req[s]
              t == tweets[r.arg]
          IN IF ok /\ ~VersionConflict(t, r)
             THEN /\ tweets' = [tweets EXCEPT ![r.arg] =
                       [t EXCEPT !.likes = SavedArray(t.likes, r, r.user), !.v = @ + 1]]
                  /\ events' = Emit("tweet-liked")
                  /\ req' = [req EXCEPT ![s] =
                       DoneWith([r EXCEPT !.saves = @ + 1, !.emits = @ + 1], 200, r.arr)]
             ELSE /\ UNCHANGED <<tweets, events>>
                  /\ req' = [req EXCEPT ![s] = Failed(r)]
  /\ UNCHANGED <<users, issued>>
  /\ Observe(s)

\* ------------------------------------------------------- follow / unfollow
\* Lines 228-231 and 263-266: findById(req.params.id)
FindTarget(r, ok) ==
  IF ~ok THEN Failed(r)
  ELSE IF ~UserExists(r.arg) THEN Done(r, 404, "User not found")
  ELSE [r EXCEPT !.pc = "find2", !.cnt0 = users[r.arg].followers,
                 !.cnt = users[r.arg].followers]

\* Mutant: the already-following test of line 234 is missing.
FollowCheckNoGuard(r, me) ==
  [r EXCEPT !.pc = "save1", !.arr = Append(me.following, r.arg),
            !.atomic = "$push", !.ver = me.v, !.cnt = r.cnt0 + 1]

\* Lines 233-239 on the currentUser that findById returned.
FollowCheck(r, me) ==
  IF Includes(me.following, r.arg)
  THEN Done(r, 400, "Already following this user")
  ELSE [r EXCEPT !.pc = "save1", !.arr = Append(me.following, r.arg),
                 !.atomic = "$push", !.ver = me.v, !.cnt = r.cnt0 + 1]

Max0(n) == IF n > 0 THEN n ELSE 0

\* Mutant: line 275 is missing, the counter is left as it was read.
UnfollowCheckNoDecrement(r, me) ==
  LET index == IndexOf(me.following, r.arg) IN
  IF index = 0
  THEN Done(r, 400, "Not following this user")
  ELSE [r EXCEPT !.pc = "save1", !.arr = Splice(me.following, index),
                 !.atomic = "$set", !.ver = me.v, !.cnt = r.cnt0]

\* Lines 268-275
UnfollowCheck(r, me) ==
  LET index == IndexOf(me.following, r.arg) IN
  IF index = 0
  THEN Done(r, 400, "Not following this user")
  ELSE [r EXCEPT !.pc = "save1", !.arr = Splice(me.following, index),
                 !.atomic = "$set", !.ver = me.v, !.cnt = Max0(r.cnt0 - 1)]

FollowFindTarget(s) ==
  /\ req[s].op = "follow" /\ req[s].pc = "find"
  /\ \E ok \in BOOLEAN :
       /\ StoreCall(ok)
       /\ req' = [req EXCEPT ![s] = FindTarget(req[s], ok)]
  /\ UNCHANGED <<users, tweets, events, issued>>
  /\ Observe(s)

FollowFindSelf(s) ==
  /\ req[s].op = "follow" /\ req[s].pc = "find2"
  /\ \E ok \in BOOLEAN :
       /\ StoreCall(ok)
       /\ req' = [req EXCEPT ![s] =
            IF ok THEN FollowCheck(req[s], users[req[s].user]) ELSE Failed(req[s])]
  /\ UNCHANGED <<users, tweets, events, issued>>
  /\ Observe(s)

UnfollowFindTarget(s) ==
  /\ req[s].op = "unfollow" /\ req[s].pc = "find"
  /\ \E ok \in BOOLEAN :
       /\ StoreCall(ok)
       /\ req' = [req EXCEPT ![s] = FindTarget(req[s], ok)]
  /\ UNCHANGED <<users, tweets, events, issued>>
  /\ Observe(s)

UnfollowFindSelf(s) ==
  /\ req[s].op = "unfollow" /\ req[s].pc = "find2"
  /\ \E ok \in BOOLEAN :
       /\ StoreCall(ok)
       /\ req' = [req EXCEPT ![s] =
            IF ok THEN UnfollowCheck(req[s], users[req[s].user]) ELSE Failed(req[s])]
  /\ UNCHANGED <<users, tweets, events, issued>>
  /\ Observe(s)

\* Lines 241 and 277: currentUser.save()
SaveSelf(s) ==
  \E ok \in BOOLEAN :
    /\ StoreCall(ok)
    /\ LET r == req[s]
           me == users[r.user]
       IN IF ok /\ ~VersionConflict(me, r)
          THEN /\ users' = [users EXCEPT ![r.user] =
                    [me EXCEPT !.following = SavedArray(me.following, r, r.arg),
                               !.v = @ + 1]]
               /\ req' = [req EXCEPT ![s] = [r EXCEPT !.pc = "save2", !.saves = @ + 1]]
          ELSE /\ users' = users
               /\ req' = [req EXCEPT ![s] = Failed(r)]

\* Lines 242-254 and 278-290: the target's save(), then io.emit and res.json.
\* followers is sent as a plain $set of the value computed from the copy read
\* earlier; an unchanged value is not sent at all.
SaveTarget(s) ==
  LET r == req[s]
      dirty == r.cnt # r.cnt0
  IN \E ok \in (IF dirty THEN BOOLEAN ELSE {TRUE}) :
       /\ StoreCall(ok)
       /\ IF ok
          THEN /\ users' = [users EXCEPT ![r.arg].followers = r.cnt]
               /\ events' = Emit(EventOf(r.op))
               /\ req' = [req EXCEPT ![s] =
                    DoneWith([r EXCEPT !.saves = @ + 1, !.emits = @ + 1], 200, r.arr)]
          ELSE /\ UNCHANGED <<users, events>>
               /\ req' = [req EXCEPT ![s] = Failed(r)]

FollowSaveSelf(s) ==
  /\ req[s].op = "follow" /\ req[s].pc = "save1"
  /\ SaveSelf(s)
  /\ UNCHANGED <<tweets, events, issued>>
  /\ Observe(s)

FollowSaveTarget(s) ==
  /\ req[s].op = "follow" /\ req[s].pc = "save2"
  /\ SaveTarget(s)
  /\ UNCHANGED <<tweets, issued>>
  /\ Observe(s)

UnfollowSaveSelf(s) ==
  /\ req[s].op = "unfollow" /\ req[s].pc = "save1"
  /\ SaveSelf(s)
  /\ UNCHANGED <<tweets, events, issued>>
  /\ Observe(s)

UnfollowSaveTarget(s) ==
  /\ req[s].op = "unfollow" /\ req[s].pc = "save2"
  /\ SaveTarget(s)
  /\ UNCHANGED <<tweets, issued>>
  /\ Observe(s)

\* ---------------------------------------------------------------- comment
NewComment(r) ==
  [user |-> [id |-> r.user, name |-> users[r.user].name,
             username |-> users[r.user].username],
   content |-> r.content]

\* Lines 340-356
CommentFind(s) ==
  /\ req[s].op = "comment" /\ req[s].pc = "find"
  /\ \E ok \in BOOLEAN :
       /\ StoreCall(ok)
       /\ req' = [req EXCEPT ![s] =
            IF ~ok THEN Failed(req[s])
            ELSE IF ~TweetExists(req[s].arg) THEN Done(req[s], 404, "Tweet not found")
            ELSE [req[s] EXCEPT !.pc = "save1", !.atomic = "$push",
                                !.ver = tweets[req[s].arg].v]]
  /\ UNCHANGED <<users, tweets, events, issued>>
  /\ Observe(s)

\* Line 357
CommentSave(s) ==
  /\ req[s].op = "comment" /\ req[s].pc = "save1"
  /\ \E ok \in BOOLEAN :
       /\ StoreCall(ok)
       /\ LET r == req[s]
              t == tweets[r.arg]
          IN IF ok
             THEN /\ tweets' = [tweets EXCEPT ![r.arg] =
                       [t EXCEPT !.comments = Append(@, NewComment(r)), !.v = @ + 1]]
                  /\ req' = [req EXCEPT ![s] =
                       [r EXCEPT !.pc = "reread", !.saves = @ + 1, !.atomic = "", !.ver = 0]]
             ELSE /\ tweets' = tweets
                  /\ req' = [req EXCEPT ![s] = Failed(r)]
  /\ UNCHANGED <<users, events, issued>>
  /\ Observe(s)

\* Lines 359-362
CommentReread(s) ==
  /\ req[s].op = "comment" /\ req[s].pc = "reread"
  /\ \E ok \in BOOLEAN :
       /\ StoreCall(ok)
       /\ IF ok
          THEN /\ events' = Emit("tweet-commented")
               /\ req' = [req EXCEPT ![s] = Done([req[s] EXCEPT !.emits = @ + 1], 200, "")]
          ELSE /\ events' = events
               /\ req' = [req EXCEPT ![s] = Failed(req[s])]
  /\ UNCHANGED <<users, tweets, issued>>
  /\ Observe(s)

\* ------------------------------------------------------------------ system
\* Every route, MaxRequests requests.
Next ==
  \E s \in Slots :
    \/ StartSignup(s, MaxRequests)
    \/ SignupFind(s)
    \/ SignupSave(s)
    \/ StartProtected(s, ProtectedOps, MaxRequests)
    \/ Auth(s)
    \/ TweetSave(s)
    \/ LikeFind(s)
    \/ LikeSave(s)
    \/ FollowFindTarget(s)
    \/ FollowFindSelf(s)
    \/ FollowSaveSelf(s)
    \/ FollowSaveTarget(s)
    \/ UnfollowFindTarget(s)
    \/ UnfollowFindSelf(s)
    \/ UnfollowSaveSelf(s)
    \/ UnfollowSaveTarget(s)
    \/ CommentFind(s)
    \/ CommentSave(s)
    \/ CommentReread(s)

Spec == Init /\ [][Next]_vars

\* Clients that only follow and unfollow.
NextFollow ==
  \E s \in Slots :
    \/ StartProtected(s, {"follow", "unfollow"}, MaxFollowRequests)
    \/ Auth(s)
    \/ FollowFindTarget(s)
    \/ FollowFindSelf(s)
    \/ FollowSaveSelf(s)
    \/ FollowSaveTarget(s)
    \/ UnfollowFindTarget(s)
    \/ UnfollowFindSelf(s)
    \/ UnfollowSaveSelf(s)
    \/ UnfollowSaveTarget(s)

SpecFollow == Init /\ [][NextFollow]_vars

\* Clients that only toggle likes.
NextLike ==
  \E s \in Slots :
    \/ StartProtected(s, {"like"}, MaxLikeRequests)
    \/ Auth(s)
    \/ LikeFind(s)
    \/ LikeSave(s)

SpecLike == Init /\ [][NextLike]_vars

\* Clients that only sign up.
NextSignup ==
  \E s \in Slots :
    \/ StartSignup(s, MaxSignupRequests)
    \/ SignupFind(s)
    \/ SignupSave(s)

SpecSignup == Init /\ [][NextSignup]_vars

\* ================================================================== claims
Stepped(s) == req'[s] # req[s]
Answered(s) == req[s].pc # "done" /\ req'[s].pc = "done"
Member(arr, x) == Count(arr, x) > 0
Followers(b) == {a \in 1..Len(users) : Member(users[a].following, b)}
FollowQuiet == \A s \in Slots : InFlight(s) => req[s].op \notin {"follow", "unfollow"}
SavesOf(op) == IF op \in {"follow", "unfollow"} THEN 2 ELSE 1

\* C1: a Follow whose read of the actor finds the target already in
\* `following` is answered 400 'Already following this user' in that very step,
\* which changes no user and emits nothing; and a request so answered has
\* performed no save and no emit.
C1_AlreadyFollowingNoEffect ==
  [][\A s \in Slots :
       /\ (req[s].op = "follow" /\ req[s].pc = "find2" /\ Stepped(s)
           /\ req'[s].status # 500
           /\ Member(users[req[s].user].following, req[s].arg))
          => /\ req'[s].pc = "done" /\ req'[s].status = 400
             /\ req'[s].err = "Already following this user"
             /\ UNCHANGED <<users, events>>
       /\ req'[s].err = "Already following this user"
          => req'[s].saves = 0 /\ req'[s].emits = 0]_vars

C1_Witness ==
  \E s \in Slots :
    /\ req[s].op = "follow" /\ req[s].err = "Already following this user"
    /\ Count(users[req[s].user].following, req[s].arg) = 1
    /\ users[req[s].arg].followers = 1

\* C2: after a successful Follow(A,B) from a state where A did not follow B
\* and a successful Unfollow(A,B), no other request having taken a step in
\* between, A's `following` and B's `followers` are what they were.
C2_FollowUnfollowRestores ==
  fu.phase = "done" =>
    /\ users[fu.actor].following = fu.following
    /\ users[fu.target].followers = fu.followers

C2_Witness == fu.phase = "done" /\ Len(fu.following) > 0

\* C3: two consecutive successful ToggleLike(T,U), with no other toggle of U
\* on T in between, leave U's membership in T.likes as it was; on a tweet with
\* no likes, and no other request stepping in between, the first answers 1
\* like and the second 0.
C3_TwoTogglesRestore ==
  tl.phase = "done" =>
    /\ Member(tweets[tl.tweet].likes, tl.user) = (tl.count0 > 0)
    /\ (tl.likes0 = 0 /\ tl.alone) => (tl.first = 1 /\ tl.second = 0)

\* C4 (as claimed): a Signup whose username exists when it arrives is answered
\* 400 'Username already taken' whatever its other fields (store failures aside).
C4_TakenAlwaysConflict ==
  \A s \in Slots :
    (req[s].op = "signup" /\ req[s].taken /\ req[s].pc = "done" /\ req[s].status # 500)
      => (req[s].status = 400 /\ req[s].err = "Username already taken")

\* C4 (amended): a Signup whose username exists when it arrives never reaches
\* the insert and saves nothing; unless the lookup fails (500) it is answered
\* 400, 'Please provide all fields' when password or name is empty and
\* 'Username already taken' otherwise.
C4_TakenNeverCreates ==
  \A s \in Slots :
    (req[s].op = "signup" /\ req[s].taken) =>
      /\ req[s].pc # "save1" /\ req[s].saves = 0
      /\ (req[s].pc = "done" /\ req[s].status # 500) =>
           /\ req[s].status = 400
           /\ req[s].err = IF req[s].password = "" \/ req[s].name = ""
                           THEN "Please provide all fields"
                           ELSE "Username already taken"

C4_Witness ==
  \E s \in Slots :
    /\ req[s].op = "signup" /\ req[s].taken /\ req[s].err = "Username already taken"
    /\ Len(users) > Len(InitUsers)

\* C5: no two user documents carry the same username, also when Signups of
\* one username interleave their lookups and inserts.
C5_UsernameUnique ==
  \A i, j \in 1..Len(users) : users[i].username = users[j].username => i = j

C5_Witness ==
  \E s, o \in Slots :
    /\ s # o /\ req[s].op = "signup" /\ req[o].op = "signup"
    /\ req[s].username = req[o].username /\ ~req[s].taken /\ ~req[o].taken
    /\ req[s].status = 200 /\ req[o].status = 500 /\ ~storeFailed

\* C6: no tweet's `likes` holds a user more than once.
C6_LikesNoDuplicate ==
  \A t \in 1..Len(tweets), u \in UserIds : Count(tweets[t].likes, u) <= 1

\* C7: a protected request with no token or a rejected token is answered 401
\* as it arrives; one whose token names an absent user is answered 401 when
\* the lookup returns; both steps change no document and emit nothing, and a
\* request answered 401 never got a user, saved or emitted.
C7_AuthGate ==
  [][\A s \in Slots :
       /\ (Free(s) /\ Stepped(s) /\ req'[s].op \in ProtectedOps
           /\ req'[s].tok \in {NoToken, BadToken})
          => /\ req'[s].pc = "done" /\ req'[s].status = 401
             /\ UNCHANGED <<users, tweets, events>>
       /\ (req[s].pc = "auth" /\ Stepped(s) /\ ~UserExists(req[s].tok))
          => /\ req'[s].pc = "done" /\ req'[s].status = 401
             /\ UNCHANGED <<users, tweets, events>>
       /\ req'[s].status = 401
          => req'[s].user = 0 /\ req'[s].saves = 0 /\ req'[s].emits = 0]_vars

C7_Witness ==
  \E s, o \in Slots :
    /\ req[s].op \in ProtectedOps /\ req[s].err = "User not found"
    /\ ~UserExists(req[s].tok)
    /\ req[o].op \in ProtectedOps /\ req[o].err \in {"Unauthorized", "Invalid token"}

\* C8: events grows only in the step that answers a protected request 200 or
\* 201, by exactly that route's event, after all its saves resolved; a step
\* that answers anything else leaves events alone.
C8_EmitAfterWrites ==
  [][/\ \A s \in Slots :
          Answered(s) =>
            IF req'[s].op \in ProtectedOps /\ req'[s].status \in {200, 201}
            THEN /\ events' = Append(events, EventOf(req'[s].op))
                 /\ req'[s].saves = SavesOf(req'[s].op)
                 /\ req'[s].emits = 1
            ELSE events' = events /\ req'[s].emits = 0
     /\ (\A s \in Slots : ~Answered(s)) => events' = events]_vars

C8_Witness ==
  \E s, o \in Slots :
    /\ req[s].op \in {"follow", "unfollow"} /\ req[s].status = 500
    /\ req[s].saves = 1 /\ req[s].emits = 0
    /\ req[o].status \in {200, 201} /\ req[o].emits = 1
    /\ Len(events) = 1

\* C9: when two ToggleLikes on one tweet by two users overlap, then once both
\* are answered (the store failing no call) each user's membership in `likes`
\* is flipped from what it was before the two.
C9_ConcurrentTogglesBothApply ==
  (pr.phase = "done" /\ ~storeFailed) =>
    \A u \in {pr.ua, pr.ub} :
      Member(tweets[pr.tweet].likes, u) # Member(pr.likes0, u)

\* C10: when no Follow or Unfollow is in flight and the store has failed no
\* call, every user's `followers` is the number of users following them.
C10_CounterMatchesLists ==
  (FollowQuiet /\ ~storeFailed) =>
    \A b \in 1..Len(users) : users[b].followers = Cardinality(Followers(b))
====
